---- MODULE Spec2Model ----
(***************************************************************************)
(* A model of the BOM service workers:                                     *)
(*   - run_pipeline (app/workers/pipeline.py): the per-job stage sequence  *)
(*     conversion, extraction, normalization, validation, aggregation,     *)
(*     reporting;                                                          *)
(*   - normalize_row / validate_required (catalog.py, validators.py);      *)
(*   - DWGConverter.convert (app/workers/dwg_converter.py): the            *)
(*     multi-backend conversion loop with validation;                      *)
(*   - BOQGenerator (app/workers/boq_generator.py): the count of block     *)
(*     inserts by name and the keyword categories.                         *)
(* External collaborators (converter processes, the DXF parser, the file   *)
(* system) are nondeterministic choices over the outcomes they can have.   *)
(***************************************************************************)
EXTENDS Integers, Sequences, FiniteSets, TLC

VARIABLES
    \* ---- run_pipeline (one job) ----
    pc,            \* stage of the job
    converter,     \* os.getenv("CONVERTER", "oda")
    installed,     \* backends whose binary _resolve_converter_bin can locate
    wouldDo,       \* what each installed backend does on this drawing if run
    fs,            \* files of the job's directory tree: set of [path, kind]
    dirs,          \* directories of the job's tree that exist
    dxf_path,      \* the local dxf_path of run_pipeline
    entities,      \* list(read_dxf_entities(dxf_path))
    catalog_file,  \* catalog_map.csv as load_catalog_map finds it
    jobCatalog,    \* the local catalog: load_catalog_map(catalog_path)
    rows,          \* [normalize_row(e, catalog) for e in entities]
    exceptions,    \* validate_required(rows)
    agg,           \* the agg dict, in insertion order
    room_totals,   \* the room_totals dict, in insertion order
    workbook,      \* the sheets written by wb.save
    result,        \* the dict returned by run_pipeline
    error,         \* the exception that left run_pipeline, or NoError
    stageLog,      \* history: the stages entered, in order
    invokedByJob,  \* history: backends run_pipeline started a process for
    \* ---- DWGConverter.convert ----
    cpc,           \* position inside convert
    available,     \* self.available_converters (keys)
    dwg,           \* the source drawing: [exists, size]
    outDirArg,     \* the output_dir argument: "none" or "given"
    outDir,        \* the output directory: [exists, files]
    outDir0,       \* history: the output directory when convert was called
    toTry,         \* converters_to_try still to be iterated
    cdxf_path,     \* the local dxf_path of convert
    metadata,      \* the metadata dict
    ret,           \* the returned (success, dxf_path), or NoReturn
    attempts,      \* history: one record per loop iteration
    \* ---- BOQGenerator ----
    bpc,           \* position: "called", "constructed" or "generated"
    cad_data,      \* the cad_data argument of BOQGenerator(cad_data)
    self_entities, \* self.entities
    counts,        \* the counts dict of _generate_from_inserts, in insertion order
    boq,           \* the dict returned by generate, or NoBoq
    \* ---- BOQGenerator._infer_category on its own ----
    kpc,           \* "called" or "returned"
    blockName,     \* the name argument
    inferred,      \* the returned (category, confidence), or NotInferred
    \* ---- two jobs on the shared data directory ----
    jconverter,    \* os.getenv("CONVERTER", "oda"), the same for every worker
    jfs,           \* the files under DATA_DIR: path -> [by, data]; by is history
    jpc,           \* per job: "new", "queued", "converted", "succeeded", "failed"
    jname,         \* per job: file.filename of the upload, as path components
    jin,           \* per job: in_path
    jdxf,          \* per job: the local dxf_path of run_pipeline
    jresult,       \* per job: the drawing its report was made from, or NoDrawing
    \* ---- ComprehensiveCADExtractor._arc_length ----
    apc,           \* "called" or "returned"
    radius,        \* the radius argument
    start_angle,   \* the start_angle argument, in degrees
    end_angle,     \* the end_angle argument, in degrees
    arc            \* the local angle_diff and the returned length, or NoArc

pipeVars == <<pc, converter, installed, wouldDo, fs, dirs, dxf_path, entities,
              catalog_file, jobCatalog, rows, exceptions, agg, room_totals, workbook, result, error,
              stageLog, invokedByJob>>
convVars == <<cpc, available, dwg, outDirArg, outDir, outDir0, toTry,
              cdxf_path, metadata, ret, attempts>>
boqVars == <<bpc, cad_data, self_entities, counts, boq>>
catVars == <<kpc, blockName, inferred>>
jobsVars == <<jconverter, jfs, jpc, jname, jin, jdxf, jresult>>
arcVars == <<apc, radius, start_angle, end_angle, arc>>
genVars == <<boqVars, catVars, jobsVars, arcVars>>
vars == <<pipeVars, convVars, genVars>>

-----------------------------------------------------------------------------
(* Bounds of the model *)

MaxEntities == 1    \* longest entity list read from a drawing by a whole job
MaxRows == 3        \* longest entity list given to the stages after extraction
MaxDxfSize == 2     \* largest size of a produced interchange file
MaxDwgSize == 3     \* largest size of the source drawing
MaxInserts == 3     \* longest inserts list given to BOQGenerator
MaxNameParts == 2   \* most fragments concatenated into a block name

-----------------------------------------------------------------------------
(* Python values *)

None == "<None>"

\* Python truthiness of a string-or-None value
Truthy(v) == v # None /\ v # ""

\* Python's  a or b
Or(a, b) == IF Truthy(a) THEN a ELSE b

\* dict.get(key) and dict.get(key, default)
Get(d, k) == IF k \in DOMAIN d THEN d[k] ELSE None
GetDefault(d, k, dflt) == IF k \in DOMAIN d THEN d[k] ELSE dflt

\* str.upper() on the block names of the model
Upper(s) ==
    CASE s = "door-900" -> "DOOR-900"
      [] s = "chair-01" -> "CHAIR-01"
      [] OTHER -> s

\* all sequences over S of length at most n
RECURSIVE SeqsUpTo(_, _)
SeqsUpTo(S, n) ==
    IF n = 0 THEN {<<>>}
    ELSE LET shorter == SeqsUpTo(S, n - 1)
         IN  shorter \cup {Append(s, x) : s \in {t \in shorter : Len(t) = n - 1}, x \in S}

Range(s) == {s[i] : i \in DOMAIN s}

NoAttrs == [t \in {} |-> ""]

-----------------------------------------------------------------------------
(* dxf_extract.read_dxf_entities: the INSERT records a drawing can hold *)

EntitySamples ==
    { [block |-> "DOOR-900", layer |-> "A-DOOR", attrs |-> NoAttrs],
      [block |-> "DOOR-900", layer |-> "A-WALL", attrs |-> NoAttrs],
      [block |-> "DOOR-900", layer |-> "A-DOOR", attrs |-> ("SIZE" :> "900")],
      [block |-> "CHAIR-01", layer |-> "A-FURN",
       attrs |-> ("ITEM_CODE" :> "DOOR-900" @@ "DESC" :> "DOOR-900" @@ "ROOM" :> "R1")],
      [block |-> "door-900", layer |-> "A-DOOR",
       attrs |-> ("CODE" :> "C1" @@ "DESCRIPTION" :> "" @@ "ZONE" :> "Z1")],
      [block |-> "", layer |-> "0", attrs |-> NoAttrs],
      [block |-> "", layer |-> "0", attrs |-> ("DESC" :> "Loose item" @@ "ROOM" :> "R1")],
      [block |-> "", layer |-> "A-FURN", attrs |-> ("ITEM_CODE" :> "X1")] }

\* the empty mapping
EmptyCatalog == [k \in {} |-> [std_item_code |-> ""]]

\* catalog_map.csv: missing, holding the header only, or holding one row
\* whose raw_block_name is written in lower case
NoCatalogFile == [exists |-> FALSE, rows |-> <<>>]

CatalogFiles ==
    { NoCatalogFile,
      [exists |-> TRUE, rows |-> <<>>],
      [exists |-> TRUE,
       rows |-> <<[raw_block_name |-> "door-900", std_item_code |-> "D900",
                   std_desc |-> "Door 900", std_size |-> "",
                   std_material |-> "Wood", std_category |-> "Doors",
                   std_uom |-> ""]>>] }

\* a loader that keys the mapping by the name as written in the file
RECURSIVE LoadRowsAsWritten(_, _)
LoadRowsAsWritten(mapping, csvRows) ==
    IF csvRows = <<>> THEN mapping
    ELSE LET row == Head(csvRows)
             key == Or(row.raw_block_name, "")
         IN  LoadRowsAsWritten((key :> row) @@ mapping, Tail(csvRows))

\* for row in csv.DictReader(f): mapping[(raw_block_name or "").upper()] = row
RECURSIVE LoadRows(_, _)
LoadRows(mapping, csvRows) ==
    IF csvRows = <<>> THEN mapping
    ELSE LET row == Head(csvRows)
             key == Upper(Or(row.raw_block_name, ""))
         IN  LoadRows((key :> row) @@ mapping, Tail(csvRows))

\* catalog.load_catalog_map: FileNotFoundError leaves the mapping empty
load_catalog_map(file) ==
    IF ~file.exists THEN EmptyCatalog ELSE LoadRows(EmptyCatalog, file.rows)

\* the catalogs run_pipeline can load
CatalogSamples == {load_catalog_map(file) : file \in CatalogFiles}

\* catalog.normalize_row
normalize_row(row, catalog) ==
    LET raw == Upper(Or(row.block, ""))
        hit == raw \in DOMAIN catalog
        m == IF hit THEN catalog[raw] ELSE [std_item_code |-> None]
        attrs == row.attrs
        item_code0 == Or(Or(Get(attrs, "ITEM_CODE"), Get(attrs, "CODE")), "")
        desc0 == Or(Or(Get(attrs, "DESC"), Get(attrs, "DESCRIPTION")), row.block)
        size0 == GetDefault(attrs, "SIZE", "")
        material0 == GetDefault(attrs, "MATERIAL", "")
        room0 == Or(Or(Get(attrs, "ROOM"), Get(attrs, "ZONE")), "")
    IN  IF hit
        THEN [block |-> row.block, layer |-> row.layer,
              item_code |-> Or(m.std_item_code, item_code0),
              desc |-> Or(m.std_desc, desc0),
              size |-> Or(m.std_size, size0),
              material |-> Or(m.std_material, material0),
              room |-> room0,
              category |-> Or(m.std_category, ""),
              uom |-> Or(m.std_uom, "NOS")]
        ELSE [block |-> row.block, layer |-> row.layer,
              item_code |-> item_code0, desc |-> desc0, size |-> size0,
              material |-> material0, room |-> room0,
              category |-> "", uom |-> "NOS"]

\* the rows run_pipeline can hand to validation and aggregation
RowSamples == {normalize_row(e, c) : e \in EntitySamples, c \in CatalogSamples}

\* a validation with elif: a row without identity is not tested for its
\* description
RECURSIVE validate_requiredElif(_)
validate_requiredElif(rs) ==
    IF rs = <<>> THEN <<>>
    ELSE LET r == Head(rs)
             problems == IF ~Truthy(Or(r.item_code, r.block))
                         THEN <<[row |-> r, issue |-> "missing identity"]>>
                         ELSE IF ~Truthy(r.desc)
                         THEN <<[row |-> r, issue |-> "missing desc"]>>
                         ELSE <<>>
         IN  problems \o validate_requiredElif(Tail(rs))

\* validators.validate_required
RECURSIVE validate_required(_)
validate_required(rs) ==
    IF rs = <<>> THEN <<>>
    ELSE LET r == Head(rs)
             identity == IF ~Truthy(Or(r.item_code, r.block))
                         THEN <<[row |-> r, issue |-> "missing identity"]>>
                         ELSE <<>>
             desc == IF ~Truthy(r.desc)
                     THEN <<[row |-> r, issue |-> "missing desc"]>>
                     ELSE <<>>
         IN  identity \o desc \o validate_required(Tail(rs))

-----------------------------------------------------------------------------
(* run_pipeline, step 5: aggregation *)

\* the aggregation key of a row
RowKey(r) == <<Or(r.item_code, r.block), r.desc, r.size, r.material, r.uom>>

\* index of key k in the dict d (a sequence of entries), 0 when absent
IndexOfKey(d, k) ==
    IF \E i \in DOMAIN d : d[i].key = k
    THEN CHOOSE i \in DOMAIN d : d[i].key = k
    ELSE 0

\* a loop body that forgets the earlier rows of the key
AggAddOverwrite(d, r) ==
    LET k == RowKey(r)
        i == IndexOfKey(d, k)
    IN  IF i = 0
        THEN Append(d, [key |-> k, qty |-> 1, layers |-> {r.layer}])
        ELSE [d EXCEPT ![i] = [key |-> k, qty |-> 1, layers |-> {r.layer}]]

\* one iteration of  for r in rows: agg[key]["qty"] += 1; agg[key]["layers"].add(..)
AggAdd(d, r) ==
    LET k == RowKey(r)
        i == IndexOfKey(d, k)
    IN  IF i = 0
        THEN Append(d, [key |-> k, qty |-> 1, layers |-> {r.layer}])
        ELSE [d EXCEPT ![i] = [key |-> k, qty |-> @.qty + 1,
                               layers |-> @.layers \cup {r.layer}]]

RECURSIVE AggFold(_, _)
AggFold(d, rs) == IF rs = <<>> THEN d ELSE AggFold(AggAdd(d, Head(rs)), Tail(rs))

\* an aggregation that leaves the first row out
AggregateFromSecond(rs) == AggFold(<<>>, IF rs = <<>> THEN rs ELSE Tail(rs))

\* agg after the loop  for r in rows
Aggregate(rs) == AggFold(<<>>, rs)

\* a rollup that also counts the rows without room under the room ""
RoomAddEveryRow(d, r) ==
    LET room == Or(r.room, "")
        k == <<room, Or(r.item_code, r.block), r.desc>>
        i == IndexOfKey(d, k)
    IN  IF i = 0 THEN Append(d, [key |-> k, qty |-> 1])
        ELSE [d EXCEPT ![i] = [key |-> k, qty |-> @.qty + 1]]

\* the Room_Wise totals (room_totals dict)
RoomAdd(d, r) ==
    LET room == Or(r.room, "")
        k == <<room, Or(r.item_code, r.block), r.desc>>
        i == IndexOfKey(d, k)
    IN  IF ~Truthy(room) THEN d
        ELSE IF i = 0 THEN Append(d, [key |-> k, qty |-> 1])
        ELSE [d EXCEPT ![i] = [key |-> k, qty |-> @.qty + 1]]

RECURSIVE RoomFold(_, _)
RoomFold(d, rs) == IF rs = <<>> THEN d ELSE RoomFold(RoomAdd(d, Head(rs)), Tail(rs))

RoomTotals(rs) == RoomFold(<<>>, rs)

-----------------------------------------------------------------------------
(* run_pipeline: the job's stages *)

Backends == {"libredwg", "oda"}

\* what a converter process does when run on the job's drawing:
\*   valid    exit status 0 and a parseable interchange file
\*   garbage  exit status 0 and a file the parser cannot open
\*   nofile   exit status 0 and no output file
\*   nonzero  a non-zero exit status
\*   timeout  subprocess.TimeoutExpired after 300 seconds
\*   oserror  the process cannot be started
Behaviours == {"valid", "garbage", "nofile", "nonzero", "timeout", "oserror"}

Stages == <<"Converting", "Extracting", "Normalizing", "Aggregating", "Reporting">>

NoError == [kind |-> "none", msg |-> "", stage |-> ""]
NoResult == [status |-> "none"]
NoWorkbook == [saved |-> FALSE]

UploadFile == [path |-> "in/drawing.dwg", kind |-> "upload"]
XlsxFile == [path |-> "out/BOQ_Output.xlsx", kind |-> "xlsx"]

\* tmp/layout.dxf or the file ODA leaves in tmp_dir; "baddxf" cannot be parsed
DxfFile(path, behaviour) ==
    [path |-> path, kind |-> IF behaviour = "valid" THEN "dxf" ELSE "baddxf"]

\* sorted(info["layers"]) on the layer names of the model
LayerRank(l) ==
    CASE l = "0" -> 0
      [] l = "A-DOOR" -> 1
      [] l = "A-FURN" -> 2
      [] l = "A-WALL" -> 3
      [] OTHER -> 4

RECURSIVE SortedLayers(_)
SortedLayers(S) ==
    IF S = {} THEN <<>>
    ELSE LET least == CHOOSE l \in S : \A o \in S : LayerRank(l) <= LayerRank(o)
         IN  <<least>> \o SortedLayers(S \ {least})

\* an exception leaving run_pipeline and re-raised by process_file_task,
\* wrongly followed by a new attempt at the conversion
RaiseAndRetry(kind, msg) ==
    /\ pc' = "Converting"
    /\ error' = [kind |-> kind, msg |-> msg, stage |-> pc]
    /\ stageLog' = Append(stageLog, "Converting")

\* an exception caught and dropped: the caller of the task sees no failure
RaiseSwallowed(kind, msg) ==
    /\ pc' = "Failed"
    /\ UNCHANGED error
    /\ UNCHANGED stageLog

\* an exception leaving run_pipeline and re-raised by process_file_task
Raise(kind, msg) ==
    /\ pc' = "Failed"
    /\ error' = [kind |-> kind, msg |-> msg, stage |-> pc]
    /\ UNCHANGED stageLog

Enter(stage) ==
    /\ pc' = stage
    /\ stageLog' = Append(stageLog, stage)
    /\ UNCHANGED error

\* process_file_task calls run_pipeline: the job directories are created
StartPipeline ==
    /\ UNCHANGED <<convVars, genVars>>
    /\ pc = "Queued"
    /\ dirs' = dirs \cup {"out", "tmp"}
    /\ dxf_path' = "tmp/layout.dxf"
    /\ Enter("Converting")
    /\ UNCHANGED <<catalog_file, jobCatalog>>
    /\ UNCHANGED <<converter, installed, wouldDo, fs, entities, rows, exceptions,
                   agg, room_totals, workbook, result, invokedByJob>>

\* step 1 with CONVERTER = "oda"
ConvertOda ==
    /\ UNCHANGED <<convVars, genVars>>
    /\ pc = "Converting"
    /\ converter = "oda"
    /\ UNCHANGED <<catalog_file, jobCatalog>>
    /\ UNCHANGED <<converter, installed, wouldDo, dirs, entities, rows, exceptions,
                   agg, room_totals, workbook, result>>
    /\ IF "oda" \notin installed
       THEN /\ Raise("RuntimeError", "Converter not found")
            /\ UNCHANGED <<fs, dxf_path, invokedByJob>>
       ELSE /\ invokedByJob' = Append(invokedByJob, "oda")
            /\ CASE wouldDo["oda"] = "timeout" ->
                      /\ Raise("RuntimeError", "Conversion timed out after 300 seconds")
                      /\ UNCHANGED <<fs, dxf_path>>
                 [] wouldDo["oda"] = "oserror" ->
                      /\ Raise("OSError", "cannot start the converter")
                      /\ UNCHANGED <<fs, dxf_path>>
                 [] wouldDo["oda"] = "nonzero" ->
                      /\ Raise("RuntimeError", "ODA conversion failed with code")
                      /\ UNCHANGED <<fs, dxf_path>>
                 [] wouldDo["oda"] = "nofile" ->
                      /\ Raise("RuntimeError", "DXF not produced by ODA converter")
                      /\ UNCHANGED <<fs, dxf_path>>
                 [] OTHER ->
                      /\ fs' = fs \cup {DxfFile("tmp/drawing.dxf", wouldDo["oda"])}
                      /\ dxf_path' = "tmp/drawing.dxf"
                      /\ Enter("Extracting")

\* step 1 with any other CONVERTER: LibreDWG
ConvertLibre ==
    /\ UNCHANGED <<convVars, genVars>>
    /\ pc = "Converting"
    /\ converter # "oda"
    /\ UNCHANGED <<catalog_file, jobCatalog>>
    /\ UNCHANGED <<converter, installed, wouldDo, dirs, dxf_path, entities, rows,
                   exceptions, agg, room_totals, workbook, result>>
    /\ IF "libredwg" \notin installed
       THEN /\ Raise("RuntimeError", "Converter not found")
            /\ UNCHANGED <<fs, invokedByJob>>
       ELSE /\ invokedByJob' = Append(invokedByJob, "libredwg")
            /\ CASE wouldDo["libredwg"] = "timeout" ->
                      /\ Raise("RuntimeError", "Conversion timed out after 300 seconds")
                      /\ UNCHANGED fs
                 [] wouldDo["libredwg"] = "oserror" ->
                      /\ Raise("OSError", "cannot start the converter")
                      /\ UNCHANGED fs
                 [] wouldDo["libredwg"] = "nonzero" ->
                      /\ Raise("CalledProcessError", "non-zero exit status")
                      /\ UNCHANGED fs
                 [] wouldDo["libredwg"] = "nofile" ->
                      /\ Raise("RuntimeError", "DXF not produced by LibreDWG")
                      /\ UNCHANGED fs
                 [] OTHER ->
                      /\ fs' = fs \cup {DxfFile(dxf_path, wouldDo["libredwg"])}
                      /\ Enter("Extracting")

\* an extraction that treats a drawing without entities as a failure
ExtractStageEmptyFatal ==
    /\ UNCHANGED <<convVars, genVars>>
    /\ pc = "Extracting"
    /\ UNCHANGED <<catalog_file, jobCatalog>>
    /\ UNCHANGED <<converter, installed, wouldDo, fs, dirs, dxf_path, rows, exceptions,
                   agg, room_totals, workbook, result, invokedByJob>>
    /\ IF [path |-> dxf_path, kind |-> "dxf"] \in fs
       THEN \E es \in SeqsUpTo(EntitySamples, MaxEntities) :
                /\ entities' = es
                /\ IF es = <<>>
                   THEN Raise("RuntimeError", "No entities found in DXF")
                   ELSE Enter("Normalizing")
       ELSE /\ Raise("RuntimeError", "Failed to parse DXF")
            /\ UNCHANGED entities

\* step 2: list(read_dxf_entities(dxf_path))
ExtractStage ==
    /\ UNCHANGED <<convVars, genVars>>
    /\ pc = "Extracting"
    /\ UNCHANGED <<catalog_file, jobCatalog>>
    /\ UNCHANGED <<converter, installed, wouldDo, fs, dirs, dxf_path, rows, exceptions,
                   agg, room_totals, workbook, result, invokedByJob>>
    /\ IF [path |-> dxf_path, kind |-> "dxf"] \in fs
       THEN \E es \in SeqsUpTo(EntitySamples, MaxEntities) :
                /\ entities' = es
                /\ Enter("Normalizing")
       ELSE /\ Raise("RuntimeError", "Failed to parse DXF")
            /\ UNCHANGED entities

\* steps 3 and 4: load the catalog, normalize every entity, validate the rows
NormalizeStage ==
    /\ UNCHANGED <<convVars, genVars>>
    /\ pc = "Normalizing"
    /\ \E file \in CatalogFiles :
           LET loaded == load_catalog_map(file)
               normalized == [i \in DOMAIN entities |-> normalize_row(entities[i], loaded)]
           IN  /\ catalog_file' = file
               /\ jobCatalog' = loaded
               /\ rows' = normalized
               /\ exceptions' = validate_required(normalized)
    /\ Enter("Aggregating")
    /\ UNCHANGED <<converter, installed, wouldDo, fs, dirs, dxf_path, entities,
                   agg, room_totals, workbook, result, invokedByJob>>

\* an aggregation step that already leaves a spreadsheet in out/
AggregateStageSavesEarly ==
    /\ UNCHANGED <<convVars, genVars>>
    /\ pc = "Aggregating"
    /\ agg' = Aggregate(rows)
    /\ fs' = fs \cup {XlsxFile}
    /\ Enter("Reporting")
    /\ UNCHANGED <<catalog_file, jobCatalog>>
    /\ UNCHANGED <<converter, installed, wouldDo, dirs, dxf_path, entities, rows,
                   exceptions, room_totals, workbook, result, invokedByJob>>

\* step 5: the agg dict
AggregateStage ==
    /\ UNCHANGED <<convVars, genVars>>
    /\ pc = "Aggregating"
    /\ agg' = Aggregate(rows)
    /\ Enter("Reporting")
    /\ UNCHANGED <<catalog_file, jobCatalog>>
    /\ UNCHANGED <<converter, installed, wouldDo, fs, dirs, dxf_path, entities, rows,
                   exceptions, room_totals, workbook, result, invokedByJob>>

MasterRow(item) ==
    <<item.key[1], item.key[2], item.key[3], item.key[4], item.key[5],
      item.qty, SortedLayers(item.layers)>>

RoomRow(t) == <<t.key[1], t.key[2], t.key[3], t.qty>>

ExceptionRow(bad) ==
    <<bad.row.block, bad.row.layer, bad.row.item_code, bad.row.desc,
      bad.row.size, bad.row.material, bad.row.room, bad.issue>>

\* a report that lists and counts only as many exceptions as there are
\* distinct ones
ReportStageDistinctOnly ==
    /\ UNCHANGED <<convVars, genVars>>
    /\ pc = "Reporting"
    /\ room_totals' = RoomTotals(rows)
    /\ workbook' = [saved |-> TRUE,
                    BOQ_Master |-> [i \in DOMAIN agg |-> MasterRow(agg[i])],
                    Room_Wise |-> [i \in DOMAIN RoomTotals(rows) |-> RoomRow(RoomTotals(rows)[i])],
                    Unmapped_Exceptions |->
                        [i \in 1..Cardinality(Range(exceptions)) |-> ExceptionRow(exceptions[i])]]
    /\ fs' = fs \cup {XlsxFile}
    /\ result' = [status |-> "success", output |-> XlsxFile.path,
                  items_parsed |-> Len(rows), unique_items |-> Len(agg),
                  exceptions |-> Cardinality(Range(exceptions))]
    /\ pc' = "Succeeded"
    /\ UNCHANGED <<catalog_file, jobCatalog>>
    /\ UNCHANGED <<converter, installed, wouldDo, dirs, dxf_path, entities, rows,
                   exceptions, agg, error, stageLog, invokedByJob>>

\* step 6: the workbook is filled and saved, the result dict returned
ReportStage ==
    /\ UNCHANGED <<convVars, genVars>>
    /\ pc = "Reporting"
    /\ room_totals' = RoomTotals(rows)
    /\ workbook' = [saved |-> TRUE,
                    BOQ_Master |-> [i \in DOMAIN agg |-> MasterRow(agg[i])],
                    Room_Wise |-> [i \in DOMAIN RoomTotals(rows) |-> RoomRow(RoomTotals(rows)[i])],
                    Unmapped_Exceptions |-> [i \in DOMAIN exceptions |-> ExceptionRow(exceptions[i])]]
    /\ fs' = fs \cup {XlsxFile}
    /\ result' = [status |-> "success", output |-> XlsxFile.path,
                  items_parsed |-> Len(rows), unique_items |-> Len(agg),
                  exceptions |-> Len(exceptions)]
    /\ pc' = "Succeeded"
    /\ UNCHANGED <<catalog_file, jobCatalog>>
    /\ UNCHANGED <<converter, installed, wouldDo, dirs, dxf_path, entities, rows,
                   exceptions, agg, error, stageLog, invokedByJob>>

\* GET /download/{job_id}: the spreadsheet of the job, or 404 while
\* out/BOQ_Output.xlsx does not exist
download == IF XlsxFile \in fs THEN "file" ELSE "404"

-----------------------------------------------------------------------------
(* DWGConverter.convert *)

\* DWGConverter.CONVERTERS[name]['priority'], 99 when unknown
Priority(name) ==
    CASE name = "libredwg" -> 1
      [] name = "dwg2dxf" -> 1
      [] name = "oda" -> 2
      [] OTHER -> 99

\* position of a backend in the available_converters dict (_detect_converters
\* probes LibreDWG first, then ODA)
DetectOrder(name) == IF name = "libredwg" THEN 1 ELSE 2

\* the list sorted by descending priority number
RECURSIVE ConvertersToTryReversed(_)
ConvertersToTryReversed(avail) ==
    IF avail = {} THEN <<>>
    ELSE LET last == CHOOSE b \in avail : \A o \in avail :
                         \/ Priority(b) > Priority(o)
                         \/ Priority(b) = Priority(o) /\ DetectOrder(b) >= DetectOrder(o)
         IN  <<last>> \o ConvertersToTryReversed(avail \ {last})

\* converters_to_try = sorted(available_converters.items(), key=priority)
RECURSIVE ConvertersToTry(_)
ConvertersToTry(avail) ==
    IF avail = {} THEN <<>>
    ELSE LET first == CHOOSE b \in avail : \A o \in avail :
                          \/ Priority(b) < Priority(o)
                          \/ Priority(b) = Priority(o) /\ DetectOrder(b) <= DetectOrder(o)
         IN  <<first>> \o ConvertersToTry(avail \ {first})

\* the file names of the output directory: <stem>.dxf and any other .dxf
Target == "drawing.dxf"
Other == "other.dxf"

\* what a .dxf file can hold; an empty file cannot be parsed.  "by" is
\* history: who wrote the file ("stale": it was there before the call)
Contents(by) ==
    {c \in [size : 0..MaxDxfSize, parseable : BOOLEAN, entity_count : {0, 1}, by : {by}] :
        /\ c.size = 0 => ~c.parseable
        /\ ~c.parseable => c.entity_count = 0}

NoFiles == [n \in {} |-> [size |-> 0]]

\* the converter process wrote no file
NothingWritten == [size |-> 0, parseable |-> FALSE, entity_count |-> 0, by |-> "nobody"]

\* the .dxf files left in an output directory by earlier conversions
StaleContents == {c \in Contents("stale") : c.size = MaxDxfSize}

\* the .dxf files an output directory that already exists can hold
DirListings ==
    {NoFiles}
    \cup {(Target :> c) : c \in StaleContents}
    \cup {(Other :> c) : c \in StaleContents}
    \cup {(Target :> c @@ Other :> d) : c \in StaleContents, d \in StaleContents}

\* how a subprocess.run of a converter ends
ProcOutcomes == {"ok", "nonzero", "timeout", "oserror"}

NoReturn == [success |-> FALSE, path |-> "<none>"]

NotFoundMetadata == [error |-> "File not found"]

\* the metadata dict built at lines 117-123
InitialMetadata(input_size) ==
    [input_size |-> input_size, converter_used |-> None, warnings |-> <<>>,
     output_file |-> None, output_size |-> None, is_valid |-> None,
     size_ratio |-> None, entity_count |-> None, errors |-> None, error |-> None]

\* DWGConverter._validate_conversion(dwg_path, dxf_path); the size ratio
\* dxf_size / dwg_size is kept as the pair <<dxf_size, dwg_size>>
ValidateConversion(dwg_size, f) ==
    IF dwg_size = 0
    THEN \* ZeroDivisionError, caught by the outer handler
         [is_valid |-> FALSE, size_ratio |-> <<0, 1>>, entity_count |-> 0,
          errors |-> <<"Validation error">>]
    ELSE LET small == 2 * f.size < dwg_size     \* size_ratio < 0.5
             errs0 == IF small THEN <<"DXF suspiciously small">> ELSE <<>>
             ratio == <<f.size, dwg_size>>
         IN  IF ~f.parseable
             THEN [is_valid |-> FALSE, size_ratio |-> ratio, entity_count |-> 0,
                   errors |-> Append(errs0, "DXF parse error")]
             ELSE IF f.entity_count = 0
             THEN [is_valid |-> FALSE, size_ratio |-> ratio, entity_count |-> 0,
                   errors |-> Append(errs0, "No entities found in DXF")]
             ELSE [is_valid |-> TRUE, size_ratio |-> ratio,
                   entity_count |-> f.entity_count, errors |-> errs0]

\* metadata.update(validation)
UpdateMetadata(md, v) ==
    [md EXCEPT !.is_valid = v.is_valid, !.size_ratio = v.size_ratio,
               !.entity_count = v.entity_count, !.errors = v.errors]

\* a warning that is dropped instead of appended
AddWarningDropped(md, name, text) == md

\* metadata['warnings'].append(...)
AddWarning(md, name, text) ==
    [md EXCEPT !.warnings = Append(@, [converter |-> name, text |-> text])]

\* a loop that gives up after the first backend that fails
NextToTryGiveUp(remaining) == <<>>

\* the for loop moves on to the next entry of converters_to_try
NextToTry(remaining) == Tail(remaining)

\* convert is entered; the output directory is made before the source is checked
ConvertBeginMkdirFirst ==
    /\ UNCHANGED <<pipeVars, genVars>>
    /\ cpc = "called"
    /\ outDir' = IF outDirArg = "none" THEN [exists |-> TRUE, files |-> NoFiles]
                 ELSE [outDir EXCEPT !.exists = TRUE]
    /\ IF ~dwg.exists
       THEN /\ ret' = [success |-> FALSE, path |-> ""]
            /\ metadata' = NotFoundMetadata
            /\ cpc' = "returned"
            /\ UNCHANGED <<toTry, cdxf_path>>
       ELSE /\ cdxf_path' = Target
            /\ metadata' = InitialMetadata(dwg.size)
            /\ toTry' = ConvertersToTry(available)
            /\ cpc' = "loop"
            /\ UNCHANGED ret
    /\ UNCHANGED <<available, dwg, outDirArg, outDir0, attempts>>

\* convert is entered: lines 105-129
ConvertBegin ==
    /\ UNCHANGED <<pipeVars, genVars>>
    /\ cpc = "called"
    /\ IF ~dwg.exists
       THEN /\ ret' = [success |-> FALSE, path |-> ""]
            /\ metadata' = NotFoundMetadata
            /\ cpc' = "returned"
            /\ UNCHANGED <<outDir, toTry, cdxf_path>>
       ELSE /\ outDir' = IF outDirArg = "none"
                         THEN [exists |-> TRUE, files |-> NoFiles]   \* tempfile.mkdtemp()
                         ELSE [outDir EXCEPT !.exists = TRUE]        \* os.makedirs(exist_ok=True)
            /\ cdxf_path' = Target
            /\ metadata' = InitialMetadata(dwg.size)
            /\ toTry' = ConvertersToTry(available)
            /\ cpc' = "loop"
            /\ UNCHANGED ret
    /\ UNCHANGED <<available, dwg, outDirArg, outDir0, attempts>>

\* lines 151-173 of one loop iteration for backend `name`, after the backend
\* has run: `success` is the flag computed at lines 138-149, `files` the
\* output directory it left, `path` the dxf_path now in force, `raises`
\* whether os.path.getsize(dxf_path) at line 156 raises
IterationTail(name, proc, success, files, path, raises) ==
    LET produced == success /\ path \in DOMAIN files
        md1 == [metadata EXCEPT !.converter_used = name, !.output_file = path]
        md2 == [md1 EXCEPT !.output_size = files[path].size]
        validation == ValidateConversion(dwg.size, files[path])
        md3 == UpdateMetadata(md2, validation)
        log(valid) == Append(attempts,
                             [name |-> name, proc |-> proc, produced |-> produced,
                              path |-> path, validated |-> valid, raised |-> raises /\ produced,
                              file |-> IF path \in DOMAIN files THEN files[path]
                                       ELSE NothingWritten])
    IN  /\ outDir' = [outDir EXCEPT !.files = files]
        /\ cdxf_path' = path
        /\ IF ~produced
           THEN /\ attempts' = log(FALSE)
                /\ toTry' = NextToTry(toTry)
                /\ UNCHANGED <<metadata, ret, cpc>>
           ELSE IF raises
           THEN /\ attempts' = log(FALSE)
                /\ metadata' = AddWarning(md1, name, "exception")
                /\ toTry' = NextToTry(toTry)
                /\ UNCHANGED <<ret, cpc>>
           ELSE IF validation.is_valid
           THEN /\ attempts' = log(TRUE)
                /\ metadata' = md3
                /\ ret' = [success |-> TRUE, path |-> path]
                /\ cpc' = "returned"
                /\ UNCHANGED toTry
           ELSE /\ attempts' = log(FALSE)
                /\ metadata' = AddWarning(md3, name, "produced invalid DXF")
                /\ toTry' = NextToTry(toTry)
                /\ UNCHANGED <<ret, cpc>>
        /\ UNCHANGED <<available, dwg, outDirArg, outDir0>>

\* one loop iteration with converter_name == 'libredwg'
\* (_convert_libredwg, then lines 151-173)
TryLibredwg ==
    /\ UNCHANGED <<pipeVars, genVars>>
    /\ cpc = "loop"
    /\ toTry # <<>>
    /\ Head(toTry) = "libredwg"
    /\ \E proc \in ProcOutcomes, raises \in BOOLEAN,
          written \in {NothingWritten} \cup Contents("libredwg") :
           LET files == IF written = NothingWritten THEN outDir.files
                        ELSE (cdxf_path :> written) @@ outDir.files
               \* return os.path.exists(dxf_path) and os.path.getsize(dxf_path) > 0,
               \* False after TimeoutExpired or any other exception
               success == /\ proc \in {"ok", "nonzero"}
                          /\ cdxf_path \in DOMAIN files
                          /\ files[cdxf_path].size > 0
           IN  /\ proc = "oserror" => written = NothingWritten
               /\ IterationTail("libredwg", proc, success, files, cdxf_path, raises)

\* one loop iteration with converter_name == 'oda'
\* (_convert_oda, the search for another .dxf, then lines 151-173)
TryOda ==
    /\ UNCHANGED <<pipeVars, genVars>>
    /\ cpc = "loop"
    /\ toTry # <<>>
    /\ Head(toTry) = "oda"
    /\ \E proc \in ProcOutcomes, raises \in BOOLEAN, name \in {Target, Other},
          written \in {NothingWritten} \cup Contents("oda") :
           LET files == IF written = NothingWritten THEN outDir.files
                        ELSE (name :> written) @@ outDir.files
               \* return result.returncode == 0, False after TimeoutExpired
               \* or any other exception
               success0 == proc = "ok"
               \* if not os.path.exists(dxf_path): candidates = [... '.dxf']
               switch == cdxf_path \notin DOMAIN files /\ DOMAIN files # {}
               path == IF switch THEN CHOOSE n \in DOMAIN files : TRUE ELSE cdxf_path
               success == IF switch THEN TRUE ELSE success0
           IN  /\ proc = "oserror" => written = NothingWritten
               /\ written = NothingWritten => name = Target
               /\ IterationTail("oda", proc, success, files, path, raises)

\* the loop is exhausted: lines 175-178
AllConvertersFailed ==
    /\ UNCHANGED <<pipeVars, genVars>>
    /\ cpc = "loop"
    /\ toTry = <<>>
    /\ metadata' = [metadata EXCEPT !.error = "All converters failed"]
    /\ ret' = [success |-> FALSE, path |-> ""]
    /\ cpc' = "returned"
    /\ UNCHANGED <<available, dwg, outDirArg, outDir, outDir0, toTry, cdxf_path, attempts>>

-----------------------------------------------------------------------------
(* Python strings as sequences of characters, for the code that looks      *)
(* inside a string (strip, upper, lower, substring test, sort key)         *)

UpperCase == <<"A", "B", "C", "D", "E", "F", "G", "H", "I", "J", "K", "L", "M", "N", "O", "P", "Q", "R", "S", "T", "U", "V", "W", "X", "Y", "Z">>
LowerCase == <<"a", "b", "c", "d", "e", "f", "g", "h", "i", "j", "k", "l", "m", "n", "o", "p", "q", "r", "s", "t", "u", "v", "w", "x", "y", "z">>

\* the characters of the model in code point order
Alphabet == <<" ", "-", "0", "1", "2", "3", "4", "5", "6", "7", "8", "9">> \o UpperCase \o LowerCase

CharRank(c) == CHOOSE i \in DOMAIN Alphabet : Alphabet[i] = c

UpperChar(c) ==
    IF \E i \in DOMAIN LowerCase : LowerCase[i] = c
    THEN UpperCase[CHOOSE i \in DOMAIN LowerCase : LowerCase[i] = c]
    ELSE c

LowerChar(c) ==
    IF \E i \in DOMAIN UpperCase : UpperCase[i] = c
    THEN LowerCase[CHOOSE i \in DOMAIN UpperCase : UpperCase[i] = c]
    ELSE c

\* str.upper() and str.lower()
StrUpper(s) == [i \in DOMAIN s |-> UpperChar(s[i])]
StrLower(s) == [i \in DOMAIN s |-> LowerChar(s[i])]

\* str.strip(): leading and trailing whitespace removed
RECURSIVE LStrip(_)
LStrip(s) == IF s # <<>> /\ Head(s) = " " THEN LStrip(Tail(s)) ELSE s

RECURSIVE RStrip(_)
RStrip(s) ==
    IF s # <<>> /\ s[Len(s)] = " " THEN RStrip(SubSeq(s, 1, Len(s) - 1)) ELSE s

StrStrip(s) == RStrip(LStrip(s))

\* kw in s
Contains(s, kw) ==
    \E start \in 1..(Len(s) - Len(kw) + 1) :
        SubSeq(s, start, start + Len(kw) - 1) = kw

\* a < b for two strings: comparison by code points, a proper prefix first
StrLess(a, b) ==
    \E k \in 1..Len(b) :
        /\ k <= Len(a) + 1
        /\ \A j \in 1..(k - 1) : a[j] = b[j]
        /\ k = Len(a) + 1 \/ CharRank(a[k]) < CharRank(b[k])

\* the characters of the descriptions that run_pipeline handles
Chars(s) ==
    CASE s = "DOOR-900" -> <<"D", "O", "O", "R", "-", "9", "0", "0">>
      [] s = "door-900" -> <<"d", "o", "o", "r", "-", "9", "0", "0">>
      [] s = "Door 900" -> <<"D", "o", "o", "r", " ", "9", "0", "0">>
      [] s = "Loose item" -> <<"L", "o", "o", "s", "e", " ", "i", "t", "e", "m">>
      [] s = "" -> <<>>

-----------------------------------------------------------------------------
(* Python values whose type the code tests: None, dict, list, str, object  *)

PyNone == [t |-> "None"]
EmptyDict == [t |-> "dict"]
PyDict(v) == [t |-> "dict", v |-> v]
PyObject(v) == [t |-> "object", v |-> v]
PyList(items) == [t |-> "list", items |-> items]
PyStr(s) == [t |-> "str", s |-> s]

\* bool(x)
PyTruthy(x) ==
    CASE x.t = "None" -> FALSE
      [] x.t = "dict" -> "v" \in DOMAIN x
      [] x.t = "list" -> x.items # <<>>
      [] x.t = "str" -> x.s # <<>>
      [] OTHER -> TRUE

\* x or y
PyOr(x, y) == IF PyTruthy(x) THEN x ELSE y

\* x.get(k) on a dict, getattr(x, k, None) on an object
PyGet(x, k) == IF "v" \in DOMAIN x /\ k \in DOMAIN x.v THEN x.v[k] ELSE PyNone

-----------------------------------------------------------------------------
(* BOQGenerator *)

\* block names of the inserts given to the generator
InsertNames ==
    {<<"D", "O", "O", "R", "-", "9", "0", "0">>,
     <<"D", "O", "O", "R", "-", "9", "0", "0", " ">>,
     <<"d", "o", "o", "r", "-", "9", "0", "0">>,
     <<"X">>,
     <<" ">>}

\* one element of entities["inserts"]: None, a dict, or an object with the
\* block_name attribute; block_name may be None
InsertSamples ==
    {PyNone, PyDict([block_name |-> PyNone]),
     PyObject([block_name |-> PyStr(<<"C", "H", "A", "I", "R", "-", "0", "1">>)]),
     PyDict([block_name |-> PyStr(<<"D", "O", "O", "R", "-", "9", "0", "0">>),
             attributes |-> PyDict([SIZE |-> PyStr(<<"9", "0", "0">>)])])}
    \cup {PyDict([block_name |-> PyStr(n)]) : n \in InsertNames}

\* the shapes of cad_data: None, no "entities" key, entities None, entities
\* a list, entities without "inserts", inserts None, inserts a list
CadSamples ==
    {PyNone, EmptyDict, PyDict([entities |-> PyNone]),
     PyDict([entities |-> PyList(<<PyNone>>)]),
     PyDict([entities |-> EmptyDict]),
     PyDict([entities |-> PyDict([lines |-> PyList(<<>>)])]),
     PyDict([entities |-> PyDict([inserts |-> PyNone])])}
    \cup {PyDict([entities |-> PyDict([inserts |-> PyList(l)])]) :
              l \in SeqsUpTo(InsertSamples, MaxInserts)}

NoBoq == [returned |-> FALSE]
NotInferred == <<"", "">>

\* BOQGenerator.__init__: self.entities
Construct(cad) ==
    LET c == PyOr(cad, EmptyDict)
        e == PyOr(PyGet(c, "entities"), EmptyDict)
    IN  IF e.t # "dict" THEN EmptyDict ELSE e

\* for keywords, category in mapping
mapping ==
    <<[keywords |-> <<<<"D", "O", "O", "R">>, <<"D", "O", "R">>, <<"P", "O", "R", "T", "E">>>>, category |-> "Doors"],
      [keywords |-> <<<<"W", "I", "N", "D", "O", "W">>, <<"W", "I", "N">>, <<"F", "E", "N", "E", "T", "R", "E">>>>, category |-> "Windows"],
      [keywords |-> <<<<"C", "H", "A", "I", "R">>, <<"S", "E", "A", "T">>>>, category |-> "Chairs"],
      [keywords |-> <<<<"T", "A", "B", "L", "E">>, <<"D", "E", "S", "K">>>>, category |-> "Tables"],
      [keywords |-> <<<<"B", "E", "D">>>>, category |-> "Beds"],
      [keywords |-> <<<<"S", "O", "F", "A">>, <<"C", "O", "U", "C", "H">>>>, category |-> "Sofas"],
      [keywords |-> <<<<"W", "A", "R", "D", "R", "O", "B", "E">>, <<"C", "U", "P", "B", "O", "A", "R", "D">>>>, category |-> "Storage"]>>

\* any(kw in upper for kw in keywords)
AnyKeyword(upper, keywords) ==
    \E i \in DOMAIN keywords : Contains(upper, keywords[i])

\* a fallback that knows the word COLUMN only
FallbackColumnOnly(upper) ==
    IF Contains(upper, <<"W", "A", "L", "L">>) THEN <<"Walls", "medium">>
    ELSE IF Contains(upper, <<"C", "O", "L", "U", "M", "N">>) THEN <<"Columns", "medium">>
    ELSE <<"Miscellaneous", "low">>

\* the fallbacks after the loop over mapping
Fallback(upper) ==
    IF Contains(upper, <<"W", "A", "L", "L">>) THEN <<"Walls", "medium">>
    ELSE IF Contains(upper, <<"C", "O", "L", "U", "M", "N">>) \/ Contains(upper, <<"C", "O", "L">>)
    THEN <<"Columns", "medium">>
    ELSE <<"Miscellaneous", "low">>

\* a loop over mapping that keeps the last list that matches
RECURSIVE LastMatch(_, _)
LastMatch(upper, m) ==
    IF m = <<>> THEN Fallback(upper)
    ELSE IF AnyKeyword(upper, m[Len(m)].keywords)
    THEN <<m[Len(m)].category, "high">>
    ELSE LastMatch(upper, SubSeq(m, 1, Len(m) - 1))

\* the loop over mapping: the first list with a keyword in upper wins
RECURSIVE FirstMatch(_, _)
FirstMatch(upper, m) ==
    IF m = <<>> THEN Fallback(upper)
    ELSE IF AnyKeyword(upper, Head(m).keywords)
    THEN <<Head(m).category, "high">>
    ELSE FirstMatch(upper, Tail(m))

\* BOQGenerator._infer_category(name)
infer_category(n) == FirstMatch(StrUpper(n), mapping)

\* index of name n in the counts dict, 0 when absent
IndexOfName(d, n) ==
    IF \E i \in DOMAIN d : d[i].name = n
    THEN CHOOSE i \in DOMAIN d : d[i].name = n
    ELSE 0

\* one iteration of  for ins in inserts ; the field raw is history: the
\* block name and attributes, as given, of the inserts counted under the entry
CountAdd(d, ins) ==
    IF ins.t = "None" THEN d
    ELSE LET given == PyOr(PyGet(ins, "block_name"), PyStr(<<>>)).s
             n == StrStrip(given)
             i == IndexOfName(d, n)
             asGiven == [block_name |-> given, attributes |-> PyGet(ins, "attributes")]
         IN  IF n = <<>> THEN d
             ELSE IF i = 0 THEN Append(d, [name |-> n, qty |-> 1, raw |-> {asGiven}])
             ELSE [d EXCEPT ![i] = [name |-> n, qty |-> @.qty + 1,
                                    raw |-> @.raw \cup {asGiven}]]

RECURSIVE CountFold(_, _)
CountFold(d, l) == IF l = <<>> THEN d ELSE CountFold(CountAdd(d, Head(l)), Tail(l))

\* the counts dict of _generate_from_inserts for self.entities; the early
\* returns leave it empty
Counts(ents) ==
    LET inserts == PyOr(PyGet(ents, "inserts"), PyList(<<>>))
    IN  IF ents.t # "dict" \/ ~PyTruthy(inserts) THEN <<>>
        ELSE CountFold(<<>>, inserts.items)

\* sorted(counts.items(), key=lambda kv: kv[0].lower()): a stable sort, the
\* first of the entries with the least key comes first
RECURSIVE SortedByLower(_)
SortedByLower(d) ==
    IF d = <<>> THEN <<>>
    ELSE LET least == CHOOSE i \in DOMAIN d :
                          /\ \A j \in DOMAIN d :
                                 ~StrLess(StrLower(d[j].name), StrLower(d[i].name))
                          /\ \A j \in 1..(i - 1) :
                                 StrLower(d[j].name) # StrLower(d[i].name)
             rest == [j \in 1..(Len(d) - 1) |-> IF j < least THEN d[j] ELSE d[j + 1]]
         IN  <<d[least]>> \o SortedByLower(rest)

\* the BOQItem built for the k-th entry of the sorted listing; quantity is
\* float(qty), kept as the integer it equals
BOQItem(k, entry) ==
    LET ic == infer_category(entry.name)
    IN  [sl_no |-> k, description |-> entry.name, category |-> ic[1],
         quantity |-> entry.qty, unit |-> "Nos", confidence |-> ic[2],
         source |-> <<"B", "L", "O", "C", "K", ":">> \o entry.name]

\* BOQGenerator._generate_from_inserts(start_sl_no=1), given the counts
ItemsOf(d) ==
    LET listing == SortedByLower(d)
    IN  [k \in DOMAIN listing |-> BOQItem(k, listing[k])]

\* BOQGenerator._build_statistics(items)
build_statistics(items) ==
    [total_items |-> Len(items),
     categories |-> Cardinality({items[k].category : k \in DOMAIN items}),
     high_confidence |-> Cardinality({k \in DOMAIN items : items[k].confidence = "high"})]

\* BOQGenerator(cad_data)
BoqConstruct ==
    /\ bpc = "called"
    /\ self_entities' = Construct(cad_data)
    /\ bpc' = "constructed"
    /\ UNCHANGED <<cad_data, counts, boq>>
    /\ UNCHANGED <<pipeVars, convVars, catVars, jobsVars, arcVars>>

\* generate() with self.entities["inserts"] in place of .get("inserts"):
\* KeyError when the key is absent
GenerateSubscript ==
    /\ bpc = "constructed"
    /\ IF "v" \notin DOMAIN self_entities \/ "inserts" \notin DOMAIN self_entities.v
       THEN /\ boq' = [returned |-> FALSE, raised |-> TRUE]
            /\ UNCHANGED counts
       ELSE LET c == Counts(self_entities)
            IN  /\ counts' = c
                /\ boq' = [returned |-> TRUE, raised |-> FALSE, items |-> ItemsOf(c),
                           statistics |-> build_statistics(ItemsOf(c))]
    /\ bpc' = "generated"
    /\ UNCHANGED <<cad_data, self_entities>>
    /\ UNCHANGED <<pipeVars, convVars, catVars, jobsVars, arcVars>>

\* BOQGenerator.generate(): the items of _generate_from_inserts as dicts and
\* the statistics; no statement of it raises on the cad_data of the model
Generate ==
    /\ bpc = "constructed"
    /\ LET c == Counts(self_entities)
       IN  /\ counts' = c
           /\ boq' = [returned |-> TRUE, raised |-> FALSE, items |-> ItemsOf(c),
                      statistics |-> build_statistics(ItemsOf(c))]
    /\ bpc' = "generated"
    /\ UNCHANGED <<cad_data, self_entities>>
    /\ UNCHANGED <<pipeVars, convVars, catVars, jobsVars, arcVars>>

\* fragments that block names are put together from
NameParts ==
    {<<"D", "O", "O", "R">>,
     <<"d", "o", "r">>,
     <<"W", "i", "n">>,
     <<"C", "H", "A", "I", "R">>,
     <<"S", "e", "a", "t">>,
     <<"T", "A", "B", "L", "E">>,
     <<"D", "E", "S", "K">>,
     <<"B", "E", "D">>,
     <<"S", "O", "F", "A">>,
     <<"C", "U", "P", "B", "O", "A", "R", "D">>,
     <<"W", "A", "L", "L">>,
     <<"C", "O", "L">>,
     <<"U", "M", "N">>,
     <<"X", "-", "1">>}

RECURSIVE Concat(_)
Concat(parts) == IF parts = <<>> THEN <<>> ELSE Head(parts) \o Concat(Tail(parts))

NameSamples == {Concat(ps) : ps \in SeqsUpTo(NameParts, MaxNameParts)}

\* one call of BOQGenerator._infer_category(name)
InferCategory ==
    /\ kpc = "called"
    /\ inferred' = infer_category(blockName)
    /\ kpc' = "returned"
    /\ UNCHANGED blockName
    /\ UNCHANGED <<pipeVars, convVars, boqVars, jobsVars, arcVars>>

-----------------------------------------------------------------------------
(* Two jobs: upload_file and run_pipeline working in DATA_DIR               *)

\* the job ids (uuid4 values, distinct)
Jobs == {"J1", "J2"}

OtherJob(j) == IF j = "J1" THEN "J2" ELSE "J1"

NoDrawing == "none"
NoPath == <<>>

\* file.filename as the client sends it: a plain name, or a name with
\* directory components
FileNames(j) ==
    {<<"a.dwg">>, <<"b.dwg">>,
     <<"..", "..", OtherJob(j), "in", "a.dwg">>,
     <<"..", "..", "x.dwg">>}

\* the path the operating system opens for a list of components below
\* DATA_DIR: ".." leaves the directory reached so far
RECURSIVE ResolvePath(_, _)
ResolvePath(reached, rest) ==
    IF rest = <<>> THEN reached
    ELSE IF Head(rest) = ".."
    THEN ResolvePath(IF reached = <<>> THEN <<>>
                     ELSE SubSeq(reached, 1, Len(reached) - 1), Tail(rest))
    ELSE ResolvePath(Append(reached, Head(rest)), Tail(rest))

\* os.path.join(job_dir, file.filename), as opened
JoinPath(dir, name) == ResolvePath(dir, name)

\* the name ODA gives the DXF it writes for a drawing
DxfName(n) == IF n = "a.dwg" THEN "a.dxf" ELSE IF n = "b.dwg" THEN "b.dxf" ELSE "x.dxf"

\* the files directly inside a directory
FilesIn(dir) ==
    {p \in DOMAIN jfs : Len(p) = Len(dir) + 1 /\ SubSeq(p, 1, Len(dir)) = dir}

\* upload_file: a job id is drawn, the upload is stored under in/ and the
\* task is queued
Upload(j) ==
    /\ jpc[j] = "new"
    /\ \E name \in FileNames(j) :
           LET in_path == JoinPath(<<j, "in">>, name)
           IN  /\ jname' = [jname EXCEPT ![j] = name]
               /\ jin' = [jin EXCEPT ![j] = in_path]
               /\ jfs' = (in_path :> [by |-> j, data |-> j]) @@ jfs
    /\ jpc' = [jpc EXCEPT ![j] = "queued"]
    /\ UNCHANGED <<jconverter, jdxf, jresult>>
    /\ UNCHANGED <<pipeVars, convVars, boqVars, catVars, arcVars>>

\* run_pipeline, step 1 with CONVERTER = "oda": every drawing of in_dir is
\* converted into tmp_dir, and candidates[0] of the listing is taken
JobConvertOda(j) ==
    /\ jpc[j] = "queued"
    /\ jconverter = "oda"
    /\ LET inputs == FilesIn(<<j, "in">>)
           written == [p \in {<<j, "tmp", DxfName(q[3])>> : q \in inputs} |->
                          [by |-> j,
                           data |-> jfs[CHOOSE q \in inputs :
                                            <<j, "tmp", DxfName(q[3])>> = p].data]]
       IN  /\ jfs' = written @@ jfs
           /\ IF inputs = {}
              THEN /\ jpc' = [jpc EXCEPT ![j] = "failed"]
                   /\ UNCHANGED jdxf
              ELSE /\ \E p \in DOMAIN written : jdxf' = [jdxf EXCEPT ![j] = p]
                   /\ jpc' = [jpc EXCEPT ![j] = "converted"]
    /\ UNCHANGED <<jconverter, jname, jin, jresult>>
    /\ UNCHANGED <<pipeVars, convVars, boqVars, catVars, arcVars>>

\* run_pipeline, step 1 with LibreDWG: dwg2dxf in_path -o tmp/layout.dxf
JobConvertLibre(j) ==
    /\ jpc[j] = "queued"
    /\ jconverter # "oda"
    /\ LET dxf_file == <<j, "tmp", "layout.dxf">>
       IN  /\ jfs' = (dxf_file :> [by |-> j, data |-> jfs[jin[j]].data]) @@ jfs
           /\ jdxf' = [jdxf EXCEPT ![j] = dxf_file]
    /\ jpc' = [jpc EXCEPT ![j] = "converted"]
    /\ UNCHANGED <<jconverter, jname, jin, jresult>>
    /\ UNCHANGED <<pipeVars, convVars, boqVars, catVars, arcVars>>

\* run_pipeline, steps 2 to 6: the DXF is read and out/BOQ_Output.xlsx saved
JobReport(j) ==
    /\ jpc[j] = "converted"
    /\ LET made_from == jfs[jdxf[j]].data
       IN  /\ jfs' = (<<j, "out", "BOQ_Output.xlsx">> :> [by |-> j, data |-> made_from]) @@ jfs
           /\ jresult' = [jresult EXCEPT ![j] = made_from]
    /\ jpc' = [jpc EXCEPT ![j] = "succeeded"]
    /\ UNCHANGED <<jconverter, jname, jin, jdxf>>
    /\ UNCHANGED <<pipeVars, convVars, boqVars, catVars, arcVars>>

-----------------------------------------------------------------------------
(* ComprehensiveCADExtractor._arc_length *)

MaxRadius == 2

\* radii of the arcs of a drawing, in drawing units
Radii == 1..MaxRadius

\* the degrees of a full turn
FullTurn == 360

\* start and end angles of an arc, in whole degrees
Degrees == 0..(FullTurn - 1)

NoArc == [angle_diff |-> -1, length |-> <<0, 1>>]

\* a swept angle that takes the size of a negative difference
angle_diffAbs(start, end) ==
    LET diff == end - start
    IN  IF diff < 0 THEN -diff ELSE diff

\* angle_diff = end_angle - start_angle; if angle_diff < 0: angle_diff += 360
angle_diff(start, end) ==
    LET diff == end - start
    IN  IF diff < 0 THEN diff + FullTurn ELSE diff

\* math.radians(degrees) = degrees * pi / 180, kept as the exact fraction
\* <<degrees, 180>> of pi
radians(degrees) == <<degrees, 180>>

\* radius * math.radians(angle_diff), as a fraction of pi
arc_length(r, start, end) ==
    LET rad == radians(angle_diff(start, end))
    IN  <<r * rad[1], rad[2]>>

\* one call of _arc_length
ArcLength ==
    /\ UNCHANGED <<pipeVars, convVars, boqVars, catVars, jobsVars>>
    /\ apc = "called"
    /\ arc' = [angle_diff |-> angle_diff(start_angle, end_angle),
               length |-> arc_length(radius, start_angle, end_angle)]
    /\ apc' = "returned"
    /\ UNCHANGED <<radius, start_angle, end_angle>>

-----------------------------------------------------------------------------
(* Initial states and specifications *)

NoMetadata == [error |-> None]

\* no job is being run
PipeParked ==
    /\ pc = "idle"
    /\ converter = "oda"
    /\ installed = {}
    /\ wouldDo = [b \in Backends |-> "absent"]
    /\ fs = {}
    /\ dirs = {}
    /\ dxf_path = ""
    /\ entities = <<>>
    /\ catalog_file = NoCatalogFile
    /\ jobCatalog = EmptyCatalog
    /\ rows = <<>>
    /\ exceptions = <<>>
    /\ agg = <<>>
    /\ room_totals = <<>>
    /\ workbook = NoWorkbook
    /\ result = NoResult
    /\ error = NoError
    /\ stageLog = <<>>
    /\ invokedByJob = <<>>

\* convert is not being called
ConvParked ==
    /\ cpc = "idle"
    /\ available = {}
    /\ dwg = [exists |-> FALSE, size |-> 0]
    /\ outDirArg = "none"
    /\ outDir = [exists |-> FALSE, files |-> NoFiles]
    /\ outDir0 = [exists |-> FALSE, files |-> NoFiles]
    /\ toTry = <<>>
    /\ cdxf_path = ""
    /\ metadata = NoMetadata
    /\ ret = NoReturn
    /\ attempts = <<>>

\* upload_file has stored the drawing under in/ and queued the task
PipeInit ==
    /\ pc = "Queued"
    /\ converter \in {"oda", "libredwg"}
    /\ installed \in SUBSET Backends
    /\ wouldDo \in [Backends -> Behaviours \cup {"absent"}]
    /\ \A b \in Backends : b \in installed <=> wouldDo[b] # "absent"
    /\ fs = {UploadFile}
    /\ dirs = {"in"}
    /\ dxf_path = ""
    /\ entities = <<>>
    /\ catalog_file = NoCatalogFile
    /\ jobCatalog = EmptyCatalog
    /\ rows = <<>>
    /\ exceptions = <<>>
    /\ agg = <<>>
    /\ room_totals = <<>>
    /\ workbook = NoWorkbook
    /\ result = NoResult
    /\ error = NoError
    /\ stageLog = <<>>
    /\ invokedByJob = <<>>

\* a job that has read some list of entities from the converted drawing
AggInit ==
    /\ pc = "Normalizing"
    /\ converter = "libredwg"
    /\ installed = {"libredwg"}
    /\ wouldDo = [b \in Backends |-> IF b = "libredwg" THEN "valid" ELSE "absent"]
    /\ fs = {UploadFile, DxfFile("tmp/layout.dxf", "valid")}
    /\ dirs = {"in", "out", "tmp"}
    /\ dxf_path = "tmp/layout.dxf"
    /\ entities \in SeqsUpTo(EntitySamples, MaxRows)
    /\ catalog_file = NoCatalogFile
    /\ jobCatalog = EmptyCatalog
    /\ rows = <<>>
    /\ exceptions = <<>>
    /\ agg = <<>>
    /\ room_totals = <<>>
    /\ workbook = NoWorkbook
    /\ result = NoResult
    /\ error = NoError
    /\ stageLog = <<"Converting", "Extracting", "Normalizing">>
    /\ invokedByJob = <<"libredwg">>

\* DWGConverter() has probed the backends and convert is called
ConvInit ==
    /\ cpc = "called"
    /\ available \in SUBSET Backends
    /\ dwg \in {[exists |-> FALSE, size |-> 0]}
               \cup {[exists |-> TRUE, size |-> n] : n \in 0..MaxDwgSize}
    /\ outDirArg \in {"none", "given"}
    /\ outDir \in {[exists |-> FALSE, files |-> NoFiles]}
                  \cup {[exists |-> TRUE, files |-> l] : l \in DirListings}
    /\ outDirArg = "none" => ~outDir.exists
    /\ outDir0 = outDir
    /\ toTry = <<>>
    /\ cdxf_path = ""
    /\ metadata = NoMetadata
    /\ ret = NoReturn
    /\ attempts = <<>>

\* no BOQGenerator is in use and _infer_category is not being called
GenParked ==
    /\ bpc = "idle"
    /\ cad_data = PyNone
    /\ self_entities = EmptyDict
    /\ counts = <<>>
    /\ boq = NoBoq
    /\ kpc = "idle"
    /\ blockName = <<>>
    /\ inferred = NotInferred

\* _arc_length is not being called
ArcParked ==
    /\ apc = "idle"
    /\ radius = 0
    /\ start_angle = 0
    /\ end_angle = 0
    /\ arc = NoArc

\* _arc_length is about to be called for an arc of the drawing
ArcInit ==
    /\ apc = "called"
    /\ radius \in Radii
    /\ start_angle \in Degrees
    /\ end_angle \in Degrees
    /\ arc = NoArc

\* no job has been uploaded to the shared data directory
JobsParked ==
    /\ jconverter = "oda"
    /\ jfs = <<>>
    /\ jpc = [j \in Jobs |-> "idle"]
    /\ jname = [j \in Jobs |-> NoPath]
    /\ jin = [j \in Jobs |-> NoPath]
    /\ jdxf = [j \in Jobs |-> NoPath]
    /\ jresult = [j \in Jobs |-> NoDrawing]

\* two uploads are about to arrive
JobsInit ==
    /\ jconverter \in {"oda", "libredwg"}
    /\ jfs = <<>>
    /\ jpc = [j \in Jobs |-> "new"]
    /\ jname = [j \in Jobs |-> NoPath]
    /\ jin = [j \in Jobs |-> NoPath]
    /\ jdxf = [j \in Jobs |-> NoPath]
    /\ jresult = [j \in Jobs |-> NoDrawing]

\* BOQGenerator is about to be constructed on some cad_data
BoqInit ==
    /\ bpc = "called"
    /\ cad_data \in CadSamples
    /\ self_entities = EmptyDict
    /\ counts = <<>>
    /\ boq = NoBoq
    /\ kpc = "idle"
    /\ blockName = <<>>
    /\ inferred = NotInferred

\* _infer_category is about to be called on some name
CatInit ==
    /\ bpc = "idle"
    /\ cad_data = PyNone
    /\ self_entities = EmptyDict
    /\ counts = <<>>
    /\ boq = NoBoq
    /\ kpc = "called"
    /\ blockName \in NameSamples
    /\ inferred = NotInferred

PipeNext ==
    \/ StartPipeline
    \/ ConvertOda
    \/ ConvertLibre
    \/ ExtractStage
    \/ NormalizeStage
    \/ AggregateStage
    \/ ReportStage

ConvNext ==
    \/ ConvertBegin
    \/ TryLibredwg
    \/ TryOda
    \/ AllConvertersFailed

AggNext ==
    \/ NormalizeStage
    \/ AggregateStage
    \/ ReportStage

JobsNext ==
    \/ \E j \in Jobs : Upload(j)
    \/ \E j \in Jobs : JobConvertOda(j)
    \/ \E j \in Jobs : JobConvertLibre(j)
    \/ \E j \in Jobs : JobReport(j)

BoqNext ==
    \/ BoqConstruct
    \/ Generate

InitPipeline == PipeInit /\ ConvParked /\ GenParked /\ JobsParked /\ ArcParked

InitAgg == AggInit /\ ConvParked /\ GenParked /\ JobsParked /\ ArcParked

InitConvert == ConvInit /\ PipeParked /\ GenParked /\ JobsParked /\ ArcParked

InitBoq == BoqInit /\ PipeParked /\ ConvParked /\ JobsParked /\ ArcParked

InitCategory == CatInit /\ PipeParked /\ ConvParked /\ JobsParked /\ ArcParked

InitJobs == JobsInit /\ PipeParked /\ ConvParked /\ GenParked /\ ArcParked

InitArc == ArcInit /\ PipeParked /\ ConvParked /\ GenParked /\ JobsParked

\* one job run by process_file_task
SpecPipeline == InitPipeline /\ [][PipeNext]_vars

\* one job, run to its end: run_pipeline is sequential code inside one task,
\* so a stage that can be taken is taken
SpecPipelineFair == SpecPipeline /\ WF_vars(PipeNext)

\* normalization, validation, aggregation and report of run_pipeline on any
\* list of entities
SpecAgg == InitAgg /\ [][AggNext]_vars

\* one call of DWGConverter.convert
SpecConvert == InitConvert /\ [][ConvNext]_vars

\* BOQGenerator(cad_data).generate()
SpecBoq == InitBoq /\ [][BoqNext]_vars

\* one call of ComprehensiveCADExtractor._arc_length
SpecArc == InitArc /\ [][ArcLength]_vars

\* one call of BOQGenerator._infer_category
SpecCategory == InitCategory /\ [][InferCategory]_vars

\* two jobs, uploaded and processed in any interleaving
SpecJobs == InitJobs /\ [][JobsNext]_vars

-----------------------------------------------------------------------------
(* Claims *)

\* the aggregation key as the claim states it: the item code, or else the
\* block name, then description, size, material and unit of measure
C1_Key(r) ==
    <<IF r.item_code # "" THEN r.item_code ELSE r.block,
      r.desc, r.size, r.material, r.uom>>

\* C1: after aggregation there is exactly one line item per distinct key
\* of the rows; its quantity is the number of rows with that key and its
\* layer set is the set of layers of those rows.
C1_AggregationExact ==
    pc = "Reporting" =>
        /\ \A i, j \in DOMAIN agg : agg[i].key = agg[j].key => i = j
        /\ {agg[i].key : i \in DOMAIN agg} = {C1_Key(rows[k]) : k \in DOMAIN rows}
        /\ \A i \in DOMAIN agg :
               LET same == {k \in DOMAIN rows : C1_Key(rows[k]) = agg[i].key}
               IN  /\ agg[i].qty = Cardinality(same)
                   /\ agg[i].layers = {rows[k].layer : k \in same}

\* rows that differ only in layer were merged, next to another item
C1_Witness ==
    /\ pc = "Reporting"
    /\ Len(agg) >= 2
    /\ \E i \in DOMAIN agg : agg[i].qty >= 2 /\ Cardinality(agg[i].layers) >= 2

C2_Index(stage) ==
    CASE stage = "Queued" -> 0
      [] stage = "Converting" -> 1
      [] stage = "Extracting" -> 2
      [] stage = "Normalizing" -> 3
      [] stage = "Aggregating" -> 4
      [] stage = "Reporting" -> 5
      [] stage = "Succeeded" -> 6
      [] OTHER -> 7

C2_Step ==
    /\ pc \in {"Failed", "Succeeded"} => UNCHANGED <<pipeVars, genVars>>
    /\ pc \notin {"Failed", "Succeeded"} =>
           \/ pc' = "Failed"
           \/ C2_Index(pc') = C2_Index(pc) + 1
    /\ error' # error => pc' = "Failed"
    /\ pc' = "Failed" => error' # NoError
    /\ \/ stageLog' = stageLog /\ pc' \in {"Failed", "Succeeded"}
       \/ /\ stageLog' = Append(stageLog, pc')
          /\ pc' \notin Range(stageLog)

\* C2: every step of a job moves it to the next stage of conversion,
\* extraction, normalization, aggregation, reporting, success, or to
\* Failed; no stage is entered twice; a failure moves the job to Failed;
\* nothing happens after Failed or Succeeded.
C2_StageOrder == [][C2_Step]_vars

\* a job that went through every stage
C2_Witness == pc = "Succeeded" /\ stageLog = Stages

\* C3: a failed job has a failure artifact in its directory when the
\* failure reaches the caller.
C3_FailureArtifactWritten ==
    pc = "Failed" => \E f \in fs : f.kind = "failure"

\* the priority table as the claim reads it
C4_Prio(name) == IF name = "libredwg" THEN 1 ELSE 2

\* C4: convert invokes available backends only, in ascending priority
\* order, each at most once, a backend only after every available backend
\* of higher priority was tried without a validated result, and none after
\* the first validated result.
C4_PriorityOrder ==
    /\ \A i \in DOMAIN attempts : attempts[i].name \in available
    /\ \A i, j \in DOMAIN attempts :
           i < j => C4_Prio(attempts[i].name) < C4_Prio(attempts[j].name)
    /\ \A i \in DOMAIN attempts : \A b \in available :
           C4_Prio(b) < C4_Prio(attempts[i].name) =>
               \E j \in 1..(i - 1) : attempts[j].name = b /\ ~attempts[j].validated
    /\ \A i \in DOMAIN attempts :
           attempts[i].validated => i = Len(attempts) /\ cpc = "returned"

\* the second backend was invoked after the first failed, and it validated
C4_Witness ==
    /\ Len(attempts) = 2
    /\ ~attempts[1].validated
    /\ attempts[2].validated

\* backend i produced output that failed validation
C5_FailedValidation(i) ==
    attempts[i].produced /\ ~attempts[i].raised /\ ~attempts[i].validated

\* C5: when a backend's output failed validation and a later backend's
\* output validated, convert returns success, names the later backend as
\* converter used and keeps an entry recording the earlier failure.
C5_FallbackKeepsFailure ==
    \A i \in DOMAIN attempts :
        (i < Len(attempts) /\ C5_FailedValidation(i) /\ attempts[Len(attempts)].validated) =>
            /\ cpc = "returned"
            /\ ret.success
            /\ metadata.converter_used = attempts[Len(attempts)].name
            /\ \E w \in Range(metadata.warnings) :
                   w.converter = attempts[i].name /\ w.text = "produced invalid DXF"

C5_Witness ==
    /\ cpc = "returned"
    /\ Len(attempts) = 2
    /\ C5_FailedValidation(1)
    /\ attempts[2].validated

\* C6: when convert has returned, every attempted backend that did not
\* yield the result has an entry in the metadata that identifies it.
C6_EveryFailureRecorded ==
    (cpc = "returned" /\ dwg.exists) =>
        \A i \in DOMAIN attempts :
            ~attempts[i].validated =>
                \E w \in Range(metadata.warnings) : w.converter = attempts[i].name

\* C7: a result returned as successful is a non-empty file whose size
\* ratio is not below one half and that holds at least one entity.
C7_ValidOnlyIfPlausible ==
    (cpc = "returned" /\ ret.success) =>
        LET f == outDir.files[ret.path]
        IN  /\ f.size > 0
            /\ 2 * f.size >= dwg.size
            /\ f.parseable
            /\ f.entity_count >= 1

\* C8: a job in which a backend invocation timed out has failed only if
\* no installed backend yields a valid result for the drawing: the timeout
\* alone does not fail the job.
C8_TimeoutNotFatal ==
    (pc = "Failed" /\ \E i \in DOMAIN invokedByJob : wouldDo[invokedByJob[i]] = "timeout") =>
        \A b \in installed : wouldDo[b] # "valid"

\* C9: for an existing drawing, convert returns the conversion-failed
\* outcome exactly when every available backend was tried and none
\* yielded a validated result.
C9_FailedIffNoneValid ==
    (cpc = "returned" /\ dwg.exists) =>
        LET failed == /\ ~ret.success
                      /\ ret.path = ""
                      /\ metadata.error = "All converters failed"
            noneValid == /\ \A i \in DOMAIN attempts : ~attempts[i].validated
                         /\ {attempts[i].name : i \in DOMAIN attempts} = available
        IN  /\ failed <=> noneValid
            /\ ~failed => ret.success /\ metadata.error = None

\* both backends were tried and convert reported the failure
C9_Witness ==
    /\ cpc = "returned"
    /\ dwg.exists
    /\ ~ret.success
    /\ Len(attempts) = 2

\* C10: for a missing drawing, convert returns the input-not-found
\* outcome, has invoked no backend, and has left the output directory as
\* it was (not created, no file added).
C10_InputNotFound ==
    (cpc = "returned" /\ ~dwg.exists) =>
        /\ ret = [success |-> FALSE, path |-> ""]
        /\ metadata = [error |-> "File not found"]
        /\ attempts = <<>>
        /\ outDir = outDir0

\* the output directory was named, did not exist, and still does not
C10_Witness ==
    /\ cpc = "returned"
    /\ ~dwg.exists
    /\ outDirArg = "given"
    /\ ~outDir0.exists
    /\ available # {}

\* what convert returns for a drawing of the given size when
\* available_converters is empty: the loop body never runs
C11_NoBackendOutcome(size) ==
    <<[success |-> FALSE, path |-> ""],
      [InitialMetadata(size) EXCEPT !.error = "All converters failed"]>>

\* C11: the outcome of convert when no backend is available differs from
\* every outcome in which available backends were tried and all failed.
C11_NoBackendDistinct ==
    (cpc = "returned" /\ dwg.exists /\ ~ret.success /\ attempts # <<>>) =>
        <<ret, metadata>> # C11_NoBackendOutcome(dwg.size)

\* C12: two rows whose keys differ in any component, compared exactly, never
\* contribute to the same line item: every entry that BOQGenerator counts
\* has taken inserts of one block name and one set of attributes only.
C12_DistinctKeysNeverMerge ==
    bpc = "generated" =>
        \A i \in DOMAIN counts : Cardinality(counts[i].raw) <= 1

\* the rollup key as the claim states it: room, then the item code or else
\* the block name, then the description
C13_Key(r) ==
    <<r.room, IF r.item_code # "" THEN r.item_code ELSE r.block, r.desc>>

\* C13: the room rollup has an entry for (room, identity, description)
\* exactly when some normalized row has that non-empty room and that pair,
\* one entry per such triple; its quantity is the number of those rows; rows
\* with empty room are in no entry; the Room_Wise sheet lists the entries.
C13_RoomRollup ==
    pc = "Succeeded" =>
        LET roomed == {k \in DOMAIN rows : rows[k].room # ""}
        IN  /\ {room_totals[i].key : i \in DOMAIN room_totals}
                   = {C13_Key(rows[k]) : k \in roomed}
            /\ \A i, j \in DOMAIN room_totals :
                   room_totals[i].key = room_totals[j].key => i = j
            /\ \A i \in DOMAIN room_totals :
                   /\ room_totals[i].qty
                          = Cardinality({k \in roomed : C13_Key(rows[k]) = room_totals[i].key})
                   /\ workbook.Room_Wise[i]
                          = room_totals[i].key \o <<room_totals[i].qty>>
            /\ Len(workbook.Room_Wise) = Len(room_totals)

\* two rows of one room and item, one row of another room and one row
\* without room went into the rollup
C13_Witness ==
    /\ pc = "Succeeded"
    /\ \E i \in DOMAIN room_totals : room_totals[i].qty = 2
    /\ Len(room_totals) = 1
    /\ \E k \in DOMAIN rows : rows[k].room = ""

\* C14: a job whose converted drawing holds zero entities is not failed: the
\* extraction fails only on a file that cannot be parsed, and once the empty
\* entity list is read the run goes through every stage and ends in
\* Succeeded with a saved report that has no line item.
C14_EmptyDrawingSucceeds ==
    /\ [](pc = "Failed" /\ error.stage = "Extracting"
              => [path |-> dxf_path, kind |-> "dxf"] \notin fs)
    /\ (pc = "Normalizing" /\ entities = <<>>)
           ~> (/\ pc = "Succeeded"
               /\ stageLog = Stages
               /\ result.status = "success"
               /\ result.items_parsed = 0
               /\ result.unique_items = 0
               /\ workbook.saved
               /\ workbook.BOQ_Master = <<>>
               /\ XlsxFile \in fs)

\* a job on a drawing without entities has ended in Succeeded
C14_Witness ==
    /\ pc = "Succeeded"
    /\ entities = <<>>
    /\ workbook.saved
    /\ workbook.BOQ_Master = <<>>

\* the cad data of the claim: no cad data, a missing or null entities
\* section, entities that are not a dict, or missing, null or empty inserts
C15_NoBlockInserts ==
    LET ents == PyGet(cad_data, "entities")
    IN  \/ cad_data.t = "None"
        \/ ents.t # "dict"
        \/ PyGet(ents, "inserts").t = "None"
        \/ PyGet(ents, "inserts") = PyList(<<>>)

\* C15: for cad data with no block inserts, generate raises no error and
\* returns an empty item list with total_items, categories and
\* high_confidence all 0.
C15_EmptyBoq ==
    (bpc = "generated" /\ C15_NoBlockInserts) =>
        /\ boq.returned
        /\ ~boq.raised
        /\ boq.items = <<>>
        /\ boq.statistics = [total_items |-> 0, categories |-> 0, high_confidence |-> 0]

\* generate has returned for cad data whose entities section is a list
C15_Witness ==
    /\ bpc = "generated"
    /\ PyGet(cad_data, "entities").t = "list"
    /\ boq.returned

\* C16: a block instance with empty name and no attributes contributes to
\* no line item and to no quantity: after the aggregation no line item, and
\* no row of the master sheet, carries the key of such an instance.
C16_EmptyInstanceIgnored ==
    pc \in {"Reporting", "Succeeded"} =>
        \A k \in DOMAIN entities :
            (entities[k].block = "" /\ DOMAIN entities[k].attrs = {}) =>
                /\ \A i \in DOMAIN agg : agg[i].key # C1_Key(rows[k])
                /\ pc = "Succeeded" => Len(workbook.BOQ_Master) < Len(rows)

\* the priority table as the claim gives it
C17_Order == <<"Doors", "Windows", "Chairs", "Tables", "Beds", "Sofas", "Storage">>

\* the i-th keyword list has a keyword that occurs in the upper-cased name
C17_Matches(i) ==
    \E k \in DOMAIN mapping[i].keywords :
        Contains(StrUpper(blockName), mapping[i].keywords[k])

\* C17: category assignment returns, with confidence high, the category of
\* the first keyword list of the priority table that has a keyword occurring
\* in the upper-cased name, also when later lists match too; confidence is
\* high for no other name.
C17_FirstListWins ==
    kpc = "returned" =>
        /\ \A i \in DOMAIN C17_Order :
               (C17_Matches(i) /\ \A j \in 1..(i - 1) : ~C17_Matches(j))
                   => inferred = <<C17_Order[i], "high">>
        /\ inferred[2] = "high" => \E i \in DOMAIN C17_Order : C17_Matches(i)

\* a name written in lower case that matches the Chairs list and the later
\* Tables list was categorized
C17_Witness ==
    /\ kpc = "returned"
    /\ blockName # StrUpper(blockName)
    /\ C17_Matches(3)
    /\ C17_Matches(4)
    /\ inferred = <<"Chairs", "high">>

\* the name matches no keyword list of the priority table
C18_Unmatched == \A i \in DOMAIN C17_Order : ~C17_Matches(i)

\* C18 as stated: an unmatched name gets a medium-confidence fallback
\* (Walls or Columns) only if its upper-cased form contains WALL or COLUMN,
\* and is Miscellaneous with low confidence otherwise.
C18_FallbackWallOrColumn ==
    (kpc = "returned" /\ C18_Unmatched) =>
        LET up == StrUpper(blockName)
        IN  IF Contains(up, <<"W", "A", "L", "L">>)
               \/ Contains(up, <<"C", "O", "L", "U", "M", "N">>)
            THEN inferred \in {<<"Walls", "medium">>, <<"Columns", "medium">>}
            ELSE inferred = <<"Miscellaneous", "low">>

\* C18 amended: an unmatched name is Walls/medium if its upper-cased form
\* contains WALL, else Columns/medium if it contains COL (COLUMN included),
\* and Miscellaneous/low otherwise.
C18_FallbackWallOrCol ==
    (kpc = "returned" /\ C18_Unmatched) =>
        LET up == StrUpper(blockName)
        IN  inferred = IF Contains(up, <<"W", "A", "L", "L">>)
                       THEN <<"Walls", "medium">>
                       ELSE IF Contains(up, <<"C", "O", "L">>)
                       THEN <<"Columns", "medium">>
                       ELSE <<"Miscellaneous", "low">>

\* an unmatched name with COL but without COLUMN was categorized
C18_Witness ==
    /\ kpc = "returned"
    /\ C18_Unmatched
    /\ Contains(StrUpper(blockName), <<"C", "O", "L">>)
    /\ ~Contains(StrUpper(blockName), <<"C", "O", "L", "U", "M", "N">>)
    /\ inferred = <<"Columns", "medium">>

\* C19: the emitted line items are in non-decreasing order of description
\* compared case-insensitively: no row of the master sheet has a description
\* that is, in lower case, less than the description of a row before it.
C19_SortedByDescription ==
    pc = "Succeeded" =>
        \A i, j \in DOMAIN workbook.BOQ_Master :
            i < j => ~StrLess(StrLower(Chars(workbook.BOQ_Master[j][2])),
                              StrLower(Chars(workbook.BOQ_Master[i][2])))

\* the two rules of the claim on the k-th row
C20_NoIdentity(k) == rows[k].item_code = "" /\ rows[k].block = ""
C20_NoDescription(k) == rows[k].desc = ""

\* the number of exceptions due to the rows before the k-th
C20_Before(k) ==
    Cardinality({j \in 1..(k - 1) : C20_NoIdentity(j)})
        + Cardinality({j \in 1..(k - 1) : C20_NoDescription(j)})

\* C20: validate_required emits for each row one "missing identity"
\* exception iff item code and block name are both empty and one missing
\* description exception (tagged "missing desc") iff the description is
\* empty, identity first, and nothing else; the exceptions are in row order.
C20_ValidateRequired ==
    pc \in {"Aggregating", "Reporting", "Succeeded"} =>
        /\ Len(exceptions) = C20_Before(Len(rows) + 1)
        /\ \A k \in DOMAIN rows :
               LET first == C20_Before(k) + 1
                   second == IF C20_NoIdentity(k) THEN first + 1 ELSE first
               IN  /\ C20_NoIdentity(k) =>
                          exceptions[first] = [row |-> rows[k], issue |-> "missing identity"]
                   /\ C20_NoDescription(k) =>
                          exceptions[second] = [row |-> rows[k], issue |-> "missing desc"]

\* rows failing the identity rule only, the description rule only, and both
\* rules were validated
C20_Witness ==
    /\ pc = "Aggregating"
    /\ Len(rows) = 3
    /\ C20_NoDescription(1) /\ ~C20_NoIdentity(1)
    /\ C20_NoIdentity(2) /\ C20_NoDescription(2)
    /\ C20_NoIdentity(3) /\ ~C20_NoDescription(3)
    /\ Len(exceptions) = 4

\* C21: every exception record produced by validation is exactly one row of
\* the exceptions sheet, in the same position, and is counted in the job
\* result: nothing is dropped or deduplicated on the way to the report.
C21_ExceptionsSurfaced ==
    pc = "Succeeded" =>
        /\ Len(workbook.Unmapped_Exceptions) = Len(exceptions)
        /\ result.exceptions = Len(exceptions)
        /\ \A i \in DOMAIN exceptions :
               LET bad == exceptions[i]
               IN  workbook.Unmapped_Exceptions[i]
                       = <<bad.row.block, bad.row.layer, bad.row.item_code, bad.row.desc,
                           bad.row.size, bad.row.material, bad.row.room, bad.issue>>
        /\ Len(exceptions)
               = Cardinality({k \in DOMAIN rows : rows[k].item_code = "" /\ rows[k].block = ""})
                   + Cardinality({k \in DOMAIN rows : rows[k].desc = ""})

\* a report was written for a job with two equal exception records
C21_Witness ==
    /\ pc = "Succeeded"
    /\ \E i, j \in DOMAIN exceptions : i # j /\ exceptions[i] = exceptions[j]
    /\ Len(workbook.Unmapped_Exceptions) >= 2

\* the first of the two attributes that is present and not empty, else the
\* fallback
C22_FirstOf(attrs, first, second, fallback) ==
    IF first \in DOMAIN attrs /\ attrs[first] # "" THEN attrs[first]
    ELSE IF second \in DOMAIN attrs /\ attrs[second] # "" THEN attrs[second]
    ELSE fallback

\* C22: when no catalog entry matches the block name, the row's item code
\* is ITEM_CODE, else CODE, else the block name; its description is DESC,
\* else DESCRIPTION, else the block name; its unit is the default count unit.
C22_FallbackToBlockName ==
    pc \in {"Aggregating", "Reporting", "Succeeded"} =>
        \A k \in DOMAIN rows :
            LET e == entities[k]
            IN  Upper(e.block) \notin DOMAIN jobCatalog =>
                    /\ rows[k].item_code
                           = C22_FirstOf(e.attrs, "ITEM_CODE", "CODE", e.block)
                    /\ rows[k].desc
                           = C22_FirstOf(e.attrs, "DESC", "DESCRIPTION", e.block)
                    /\ rows[k].uom = "NOS"

\* C23: in every interleaving of two jobs with distinct ids, every file a
\* job has created or written lies under that job's own directory, and the
\* report of a job that succeeded is made from that job's own drawing, as
\* it is when the job runs alone.
C23_JobsIsolated ==
    /\ \A p \in DOMAIN jfs : p[1] = jfs[p].by
    /\ \A j \in Jobs : jpc[j] = "succeeded" => jresult[j] = j

C24_Step ==
    /\ (pc # "Failed" /\ pc' = "Failed") =>
           /\ error' # NoError
           /\ error'.stage = pc
           /\ fs \subseteq fs'
           /\ dirs \subseteq dirs'
    /\ pc = "Failed" => UNCHANGED <<fs, dirs, error>>

\* C24: a stage that fails hands its failure to the caller of the pipeline
\* (the exception leaves run_pipeline and the task, tagged with the stage),
\* and neither the failing step nor anything after it removes or changes a
\* file or directory already in the job's tree.
C24_FailureKeepsFiles == [][C24_Step]_vars

\* the extraction failed and the upload and the interchange file that
\* could not be parsed are still there
C24_Witness ==
    /\ pc = "Failed"
    /\ error.stage = "Extracting"
    /\ UploadFile \in fs
    /\ \E f \in fs : f.kind = "baddxf"
    /\ {"in", "out", "tmp"} \subseteq dirs

\* the rows of the catalog source whose block name equals the given one up
\* to letter case; none when the source is missing
C25_Matching(block) ==
    {i \in DOMAIN catalog_file.rows :
        /\ catalog_file.exists
        /\ Upper(catalog_file.rows[i].raw_block_name) = Upper(block)}

\* the catalog value if it is not empty, else the value from the attributes
C25_Prefer(std, derived) == IF std # "" THEN std ELSE derived

\* C25: the catalog is looked up by the upper-cased block name, so names
\* that differ in letter case only get the same entry; with an entry, item
\* code, description, size and material each take the catalog value if it is
\* non-empty and else keep the attribute-derived value; without an entry, and
\* with a missing catalog source, every field is the attribute-derived value.
C25_CatalogLookup ==
    pc \in {"Aggregating", "Reporting", "Succeeded"} =>
        \A k \in DOMAIN rows :
            LET e == entities[k]
                code == C22_FirstOf(e.attrs, "ITEM_CODE", "CODE", "")
                desc == C22_FirstOf(e.attrs, "DESC", "DESCRIPTION", e.block)
                size == IF "SIZE" \in DOMAIN e.attrs THEN e.attrs["SIZE"] ELSE ""
                material == IF "MATERIAL" \in DOMAIN e.attrs THEN e.attrs["MATERIAL"] ELSE ""
                hits == C25_Matching(e.block)
                m == catalog_file.rows[CHOOSE i \in hits : \A o \in hits : o <= i]
            IN  IF hits = {}
                THEN /\ rows[k].item_code = code
                     /\ rows[k].desc = desc
                     /\ rows[k].size = size
                     /\ rows[k].material = material
                ELSE /\ rows[k].item_code = C25_Prefer(m.std_item_code, code)
                     /\ rows[k].desc = C25_Prefer(m.std_desc, desc)
                     /\ rows[k].size = C25_Prefer(m.std_size, size)
                     /\ rows[k].material = C25_Prefer(m.std_material, material)

\* blocks "door-900" and "DOOR-900" were normalized with the catalog row
\* written as "door-900"; the empty catalog size left the SIZE attribute
C25_Witness ==
    /\ pc = "Aggregating"
    /\ Len(rows) = 2
    /\ rows[1].block = "door-900" /\ rows[1].item_code = "D900"
    /\ rows[2].block = "DOOR-900" /\ rows[2].item_code = "D900"
    /\ rows[2].size = "900" /\ rows[2].material = "Wood"

\* C26: when convert reports success, the returned file was written during
\* this call by the backend named in converter_used, and that backend's
\* process did not exit with failure; a .dxf that was in the output
\* directory before the call is never the result.
C26_ResultIsFresh ==
    (cpc = "returned" /\ ret.success) =>
        LET last == attempts[Len(attempts)]
        IN  /\ outDir.files[ret.path].by = metadata.converter_used
            /\ outDir.files[ret.path].by # "stale"
            /\ last.name = metadata.converter_used
            /\ last.proc = "ok"

\* C27: whenever convert returns failure for a drawing that exists, the
\* returned metadata names no backend as converter_used and records no
\* output file, whatever backend attempts came before.
C27_FailureNamesNoBackend ==
    (cpc = "returned" /\ ~ret.success /\ dwg.exists) =>
        /\ metadata.converter_used = None
        /\ metadata.output_file = None

\* the sum of the quantity column of the BOQ_Master sheet
RECURSIVE C28_SumQty(_)
C28_SumQty(sheet) ==
    IF sheet = <<>> THEN 0 ELSE Head(sheet)[6] + C28_SumQty(Tail(sheet))

\* C28: in a finished run the quantities of the BOQ line items add up to
\* items_parsed, the number of extracted rows; unique_items lies between 0
\* and items_parsed and is 0 only when items_parsed is 0.
C28_QuantitiesAddUp ==
    pc = "Succeeded" =>
        /\ result.items_parsed = Len(entities)
        /\ C28_SumQty(workbook.BOQ_Master) = result.items_parsed
        /\ result.unique_items = Len(workbook.BOQ_Master)
        /\ result.unique_items \in 0..result.items_parsed
        /\ (result.unique_items = 0) <=> (result.items_parsed = 0)

\* three rows were folded into two line items
C28_Witness ==
    /\ pc = "Succeeded"
    /\ result.items_parsed = 3
    /\ result.unique_items = 2
    /\ C28_SumQty(workbook.BOQ_Master) = 3

\* C29: the download of a job returns the spreadsheet only after a run of
\* the job has gone through conversion, extraction, normalization,
\* validation, aggregation and reporting and has saved the workbook; a job
\* whose run failed has nothing to download.
C29_OutputOnlyAfterFullRun ==
    /\ download = "file" =>
           /\ pc = "Succeeded"
           /\ stageLog = Stages
           /\ workbook.saved
           /\ result.status = "success"
           /\ Len(rows) = Len(entities)
           /\ exceptions = validate_required(rows)
           /\ agg = Aggregate(rows)
    /\ pc = "Failed" => download = "404"
    /\ pc = "Succeeded" => download = "file"

\* a finished job with one line item, whose spreadsheet can be downloaded
C29_Witness ==
    /\ pc = "Succeeded"
    /\ download = "file"
    /\ stageLog = Stages
    /\ Len(agg) = 1

\* the swept angle as the claim states it
C30_Swept ==
    IF end_angle - start_angle >= 0
    THEN end_angle - start_angle
    ELSE end_angle - start_angle + 360

\* C30: for start and end angles in whole degrees 0..359 the swept angle used
\* for the arc length is end minus start when that is not negative and end
\* minus start plus 360 otherwise; it lies in 0..359 (270 from 0 to 270, 90
\* from 270 to 0) and the arc length is the radius times that angle in
\* radians, that is radius * swept / 180 times pi.
C30_ArcLength ==
    (apc = "returned" /\ start_angle \in 0..359 /\ end_angle \in 0..359) =>
        /\ arc.angle_diff = C30_Swept
        /\ arc.angle_diff \in 0..359
        /\ (start_angle = 0 /\ end_angle = 270) => arc.angle_diff = 270
        /\ (start_angle = 270 /\ end_angle = 0) => arc.angle_diff = 90
        /\ arc.length[2] > 0
        /\ arc.length[1] * 180 = radius * arc.angle_diff * arc.length[2]

\* the wrap-around arc from 270 to 0 degrees: a quarter turn, length r * pi / 2
C30_Witness ==
    /\ apc = "returned"
    /\ start_angle = 270
    /\ end_angle = 0
    /\ arc.angle_diff = 90
    /\ 2 * arc.length[1] = radius * arc.length[2]

====
